---- MODULE Spec2Model ----
(***************************************************************************)
(* Display-width engine of calculate_string_length.py: version resolution, *)
(* range search, codepoint width, UTF-8 decoding, string width, cut/pad.   *)
(* Strings are sequences: a version string and a text are sequences of     *)
(* codepoints, a byte buffer is a sequence of integers 0..255.  Python     *)
(* indexes from 0, sequences here from 1.                                  *)
(***************************************************************************)
EXTENDS Integers, Sequences, FiniteSets, TLC

VARIABLES
    pc,             \* position of the running call
    ret,            \* outcome of the call: [kind, val]
    given_version,  \* _wcmatch_version: requested version string
    environ,        \* os.environ restricted to UNICODE_VERSION: {} or {value}
    warn_action,    \* what the warnings filter does with a warning of the module
    ucs,            \* _bisearch: ordinal searched for
    table,          \* _bisearch: interval table
    lbound,         \* _bisearch: lower index
    ubound,         \* _bisearch: upper index
    text,           \* Calc_String_Width / _decode_one: the text
    is_str,         \* isinstance(text, str)
    start_offs,     \* Calc_String_Width: start offset
    end_offs,       \* Calc_String_Width: end offset: Some(n), or None
    i,              \* _decode_one: the position of the next call
    string,         \* Cut_And_Pad_String: the string being fitted
    length,         \* Cut_And_Pad_String: target width
    cut_align,      \* Cut_And_Pad_String
    pad_align,      \* Cut_And_Pad_String
    pad_char,       \* Cut_And_Pad_String
    char,           \* Calc_Char_Width: the character (its ordinal)
    steps,          \* number of iterations / calls run so far
    pos             \* _decode_one: the position of the last call

vars == <<pc, ret, given_version, environ, warn_action, ucs, table, lbound,
          ubound, text,
          is_str, start_offs, end_offs, i, string, length, cut_align,
          pad_align, pad_char, char, steps, pos>>

verVars == <<given_version>>
envVars == <<environ, warn_action>>
bisVars == <<ucs, table, lbound, ubound>>
txtVars == <<text, is_str, start_offs, end_offs, i>>
cutVars == <<string, length, cut_align, pad_align, pad_char>>

----------------------------------------------------------------------------
(* Bounds of the model *)

MaxVerLen == 5      \* longest requested version string
MaxRanges == 3      \* longest interval table of the range-search runs
MaxUcs == 7         \* largest ordinal of the range-search runs
MaxTextLen == 4     \* longest byte buffer / text
MaxStrLen == 3      \* longest string handed to Cut_And_Pad_String
MaxLength == 4      \* largest target width

----------------------------------------------------------------------------
(* Python values and operators *)

\* an optional integer is a sequence: None is empty, the integer n is <<n>>
None == <<>>
Some(n) == <<n>>
NoRet == [kind |-> "none", val |-> 0]
Return(v) == [kind |-> "return", val |-> v]
Raise(e) == [kind |-> "raise", val |-> e]

\* F applied to the value of x: x is computed once, and F works on its value
Bind(x, F(_)) == CHOOSE r \in {F(v) : v \in {x}} : TRUE

Min(a, b) == IF a < b THEN a ELSE b
Max(a, b) == IF a > b THEN a ELSE b

RECURSIVE BitAnd(_, _)
BitAnd(a, b) ==
    IF a = 0 \/ b = 0 THEN 0
    ELSE (a % 2) * (b % 2) + 2 * BitAnd(a \div 2, b \div 2)

RECURSIVE BitOr(_, _)
BitOr(a, b) ==
    IF a = 0 THEN b
    ELSE IF b = 0 THEN a
    ELSE Max(a % 2, b % 2) + 2 * BitOr(a \div 2, b \div 2)

Shl(a, n) == a * 2^n

\* s[lo:hi] with Python's clamping of out-of-range and negative indices
PySlice(s, lo, hi) ==
    LET n == Len(s)
        norm(k) == IF k < 0 THEN Max(k + n, 0) ELSE Min(k, n)
        a == norm(lo)
        b == norm(hi)
    IN  IF a >= b THEN <<>> ELSE SubSeq(s, a + 1, b)

Range(s) == {s[k] : k \in 1..Len(s)}

RECURSIVE SeqsUpTo(_, _)
SeqsUpTo(S, n) ==
    IF n = 0 THEN {<<>>}
    ELSE LET shorter == SeqsUpTo(S, n - 1)
         IN  shorter \cup {Append(s, x) : s \in {t \in shorter : Len(t) = n - 1}, x \in S}

----------------------------------------------------------------------------
(* Version strings *)

\* a string is the sequence of its code points
AUTO == <<97, 117, 116, 111>>                   \* 'auto'
LATEST == <<108, 97, 116, 101, 115, 116>>       \* 'latest'

\* the code points of the digits 0 of the decimal digit blocks int() accepts
DigitZeros ==
    {\h30, \h660, \h6F0, \h7C0, \h966, \h9E6, \hA66, \hAE6, \hB66, \hBE6, \hC66,
     \hCE6, \hD66, \hDE6, \hE50, \hED0, \hF20, \h1040, \h1090, \h17E0, \h1810,
     \h1946, \h19D0, \h1A80, \h1A90, \h1B50, \h1BB0, \h1C40, \h1C50, \hA620,
     \hA8D0, \hA900, \hA9D0, \hA9F0, \hAA50, \hABF0, \hFF10, \h104A0, \h10D30,
     \h11066, \h110F0, \h11136, \h111D0, \h112F0, \h11450, \h114D0, \h11650,
     \h116C0, \h11730, \h118E0, \h11950, \h11C50, \h11D50, \h11DA0, \h16A60,
     \h16AC0, \h16B50, \h1D7CE, \h1D7D8, \h1D7E2, \h1D7EC, \h1D7F6, \h1E140,
     \h1E2F0, \h1E950, \h1FBF0}
IsDigit(c) == \E z \in DigitZeros : z <= c /\ c <= z + 9
DigitVal(c) == c - (CHOOSE z \in DigitZeros : z <= c /\ c <= z + 9)

\* the characters requested version strings are drawn from: all strings up to
\* MaxVerLen over the digits of the tabulated versions, '.', 'x' and '-', and
\* all strings two shorter that may also hold '+', ' ', '_', a vertical tab, a
\* no-break space and the Arabic-Indic digit five
VerAlphabet == {48, 49, 52, 53, 57, 46, 120, 45}
VerAlphabetWide == VerAlphabet \cup {43, 32, 95, 11, \hA0, \h665}
IsVerString(v) ==
    \/ v \in SeqsUpTo(VerAlphabet, MaxVerLen)
    \/ v \in SeqsUpTo(VerAlphabetWide, MaxVerLen - 2)
    \/ v \in {AUTO, LATEST}

\* calculate_string_length_const.UNICODE_VERSIONS (abridged), ascending
UNICODE_VERSIONS ==
    << <<52, 46, 49, 46, 48>>,      \* '4.1.0'
       <<53, 46, 48, 46, 48>>,      \* '5.0.0'
       <<53, 46, 49, 46, 48>>,      \* '5.1.0'
       <<57, 46, 48, 46, 48>> >>    \* '9.0.0'

\* str.split('.')
RECURSIVE Split(_)
Split(s) ==
    IF \A k \in 1..Len(s) : s[k] # 46
    THEN <<s>>
    ELSE LET k == CHOOSE j \in 1..Len(s) :
                      s[j] = 46 /\ \A h \in 1..(j - 1) : s[h] # 46
         IN  <<SubSeq(s, 1, k - 1)>> \o Split(SubSeq(s, k + 1, Len(s)))

RECURSIVE DigitsVal(_)
DigitsVal(p) ==
    IF p = <<>> THEN 0
    ELSE 10 * DigitsVal(SubSeq(p, 1, Len(p) - 1)) + DigitVal(p[Len(p)])

\* int(piece): whitespace around, an optional sign, then decimal digits with
\* single underscores allowed between two digits

\* the code points int() ignores around the number
Whitespace ==
    {9, 10, 11, 12, 13, 32, \h85, \hA0, \h1680, \h2028, \h2029, \h202F, \h205F,
     \h3000} \cup (\h2000..\h200A)

RECURSIVE LStrip(_)
LStrip(p) == IF p # <<>> /\ p[1] \in Whitespace THEN LStrip(Tail(p)) ELSE p

RECURSIVE RStrip(_)
RStrip(p) ==
    IF p # <<>> /\ p[Len(p)] \in Whitespace THEN RStrip(SubSeq(p, 1, Len(p) - 1)) ELSE p

Strip(p) == RStrip(LStrip(p))

\* the digits after the sign: whether they parse, and their signed value
IntDigits(q, sign) ==
    [ok |-> /\ q # <<>>
            /\ IsDigit(q[1]) /\ IsDigit(q[Len(q)])
            /\ \A k \in 1..Len(q) : IsDigit(q[k]) \/ q[k] = 95
            /\ \A k \in 1..(Len(q) - 1) : ~(q[k] = 95 /\ q[k + 1] = 95),
     val |-> sign * DigitsVal(SelectSeq(q, IsDigit))]

\* the stripped text: an optional '+' or '-', then the digits
IntSigned(s) ==
    LET signed == s # <<>> /\ s[1] \in {43, 45}
    IN  Bind(IF signed THEN Tail(s) ELSE s,
             LAMBDA q : IntDigits(q, IF signed /\ s[1] = 45 THEN 0 - 1 ELSE 1))

\* int(p): [ok |-> whether p parses, val |-> its value]
IntParse(p) == Bind(Strip(p), IntSigned)

\* tuple(...) of the parsed pieces, or the ValueError of a piece int() rejects
IntTuple(ints) ==
    IF \A k \in 1..Len(ints) : ints[k].ok
    THEN Return([k \in 1..Len(ints) |-> ints[k].val])
    ELSE Raise("ValueError")

\* map(int, pieces)
IntPieces(pieces) == IntTuple([k \in 1..Len(pieces) |-> IntParse(pieces[k])])

\* tuple(map(int, ver_string.split('.'))), or the ValueError int() raises
_wcversion_value(ver_string) == Bind(Split(ver_string), IntPieces)

\* Python's ordering of tuples of integers
RECURSIVE TupleLT(_, _)
TupleLT(a, b) ==
    IF b = <<>> THEN FALSE
    ELSE IF a = <<>> THEN TRUE
    ELSE IF Head(a) # Head(b) THEN Head(a) < Head(b)
    ELSE TupleLT(Tail(a), Tail(b))

TupleLE(a, b) == a = b \/ TupleLT(a, b)

\* t[:n]
Prefix(t, n) == SubSeq(t, 1, Min(n, Len(t)))

\* os.environ.get('UNICODE_VERSION', default)
EnvironGet(env, default) == IF env = {} THEN default ELSE CHOOSE v \in env : TRUE

\* the scan with the IndexError of the last index left uncaught
RECURSIVE ScanVersions_uncaught(_, _, _)
ScanVersions_uncaught(idx, cmp_given, unicode_versions) ==
    IF idx + 1 >= Len(unicode_versions)
    THEN Raise("IndexError")
    ELSE LET cmp_next_version == _wcversion_value(unicode_versions[idx + 2]).val
         IN  IF cmp_given = Prefix(cmp_next_version, Len(cmp_given))
             THEN Return(unicode_versions[idx + 2])
             ELSE IF TupleLT(cmp_given, cmp_next_version)
             THEN Return(unicode_versions[idx + 1])
             ELSE ScanVersions_uncaught(idx + 1, cmp_given, unicode_versions)

\* the scan returning the next version where the code returns the current one
RECURSIVE ScanVersions_next(_, _, _)
ScanVersions_next(idx, cmp_given, unicode_versions) ==
    IF idx + 1 >= Len(unicode_versions)
    THEN Return(unicode_versions[Len(unicode_versions)])
    ELSE LET cmp_next_version == _wcversion_value(unicode_versions[idx + 2]).val
         IN  IF cmp_given = Prefix(cmp_next_version, Len(cmp_given))
             THEN Return(unicode_versions[idx + 2])
             ELSE IF TupleLT(cmp_given, cmp_next_version)
             THEN Return(unicode_versions[idx + 2])
             ELSE ScanVersions_next(idx + 1, cmp_given, unicode_versions)

\* the for loop of _wcmatch_version from index idx (0-based) on
RECURSIVE ScanVersions(_, _, _)
RECURSIVE ScanCompare(_, _, _, _)

\* the two tests of the loop body on cmp_next_version
ScanCompare(idx, cmp_given, cmp_next_version, unicode_versions) ==
    IF cmp_given = Prefix(cmp_next_version, Len(cmp_given))
    THEN Return(unicode_versions[idx + 2])
    ELSE IF TupleLT(cmp_given, cmp_next_version)
    THEN Return(unicode_versions[idx + 1])
    ELSE ScanVersions(idx + 1, cmp_given, unicode_versions)

ScanVersions(idx, cmp_given, unicode_versions) ==
    IF idx >= Len(unicode_versions)
    THEN Raise("AssertionError")
    ELSE IF idx + 1 >= Len(unicode_versions)
    THEN Return(unicode_versions[Len(unicode_versions)])
    ELSE ScanCompare(idx, cmp_given,
                     _wcversion_value(unicode_versions[idx + 2]).val, unicode_versions)

\* warnings.warn(message, category) followed by the statement yielding result:
\* a filter action of "error" raises the warning, any other lets the call go on
Warn(action, category, result) == IF action = "error" THEN Raise(category) ELSE result

\* _wcmatch_version once cmp_given is parsed, or int() has raised
MatchParsed(cmp_given, unicode_versions, action) ==
    IF cmp_given.kind = "raise"
    THEN Warn(action, "UserWarning", Return(unicode_versions[Len(unicode_versions)]))
    ELSE IF TupleLE(cmp_given.val, _wcversion_value(unicode_versions[1]).val)
    THEN Warn(action, "UserWarning", Return(unicode_versions[1]))
    ELSE ScanVersions(0, cmp_given.val, unicode_versions)

\* _wcmatch_version once 'auto' is replaced by the environment's value
MatchGiven(given, unicode_versions, action) ==
    IF given = LATEST THEN Return(unicode_versions[Len(unicode_versions)])
    ELSE IF given \in Range(unicode_versions) THEN Return(given)
    ELSE Bind(_wcversion_value(given),
              LAMBDA cmp_given : MatchParsed(cmp_given, unicode_versions, action))

_wcmatch_version(given, env, action) ==
    Bind(IF given = AUTO THEN EnvironGet(env, LATEST) ELSE given,
         LAMBDA requested : MatchGiven(requested, UNICODE_VERSIONS, action))

----------------------------------------------------------------------------
(* Version resolution runs *)

IdleVer == given_version = <<>>
IdleBis == ucs = 0 /\ table = <<>> /\ lbound = 0 /\ ubound = 0
IdleTxt == text = <<>> /\ is_str = TRUE /\ start_offs = 0 /\ end_offs = None
           /\ i = 0
IdleCut == string = <<>> /\ length = 0 /\ cut_align = "left"
           /\ pad_align = "right" /\ pad_char = <<>>
IdleChar == char = 0
IdleSteps == steps = 0 /\ pos = 0
IdleEnv == environ = {} /\ warn_action = "default"

\* the actions of the warnings filter: "error" raises the warning, every other
\* action ("default", "ignore", "always", "module", "once") lets the call go on
WarnActions == {"default", "error"}

InitVersion ==
    /\ pc = "call" /\ ret = NoRet
    /\ IsVerString(given_version)
    /\ IF given_version = AUTO
       THEN \/ environ = {}
            \/ \E v \in SeqsUpTo(VerAlphabet, MaxVerLen - 1) : environ = {v}
            \/ \E v \in SeqsUpTo(VerAlphabetWide, MaxVerLen - 2) : environ = {v}
            \/ \E v \in {AUTO, LATEST} : environ = {v}
       ELSE environ = {}
    /\ warn_action \in WarnActions
    /\ IdleBis /\ IdleTxt /\ IdleCut /\ IdleChar /\ IdleSteps

WcmatchVersion ==
    /\ pc = "call"
    /\ ret' = _wcmatch_version(given_version, environ, warn_action)
    /\ pc' = "done"
    /\ UNCHANGED <<given_version, envVars, bisVars, txtVars, cutVars, char, steps, pos>>

SpecVersion == InitVersion /\ [][WcmatchVersion]_vars

\* the string resolution continues with after the "auto" lookup
Requested == IF given_version = AUTO THEN EnvironGet(environ, LATEST) ELSE given_version

VersionTuple(k) == _wcversion_value(UNICODE_VERSIONS[k]).val
LatestVersion == UNICODE_VERSIONS[Len(UNICODE_VERSIONS)]

\* the requested string does not parse, or parses to a tuple not above the
\* earliest tabulated version: the cases in which the call issues a warning
Warns ==
    /\ Requested # LATEST
    /\ Requested \notin Range(UNICODE_VERSIONS)
    /\ \/ _wcversion_value(Requested).kind = "raise"
       \/ TupleLE(_wcversion_value(Requested).val, VersionTuple(1))

\* C3 as stated: version resolution is total: whatever string is requested,
\* and whatever UNICODE_VERSION holds under "auto", the call returns a member
\* of the version list; it never raises and never reaches the final assert.
C3_ResolveTotal ==
    pc = "done" => ret.kind = "return" /\ ret.val \in Range(UNICODE_VERSIONS)

\* C3 amended: whatever string is requested, and whatever UNICODE_VERSION
\* holds under "auto", the call returns a member of the version list and
\* never reaches the final assert, unless the warnings filter turns warnings
\* into errors and the call issues one: then, and only then, it raises
\* UserWarning.
C3_ResolveTotalUnlessError ==
    pc = "done" =>
        IF warn_action = "error" /\ Warns
        THEN ret = Raise("UserWarning")
        ELSE ret.kind = "return" /\ ret.val \in Range(UNICODE_VERSIONS)

\* the garbage string 'x' has been resolved, with a warning that is not an
\* error, to the latest version
C3_Witness ==
    /\ pc = "done" /\ given_version = <<120>> /\ warn_action = "default" /\ Warns
    /\ ret = Return(LatestVersion)

\* the case of the scan: a dotted integer version, not tabulated, above the earliest
ScanCase ==
    /\ Requested # LATEST
    /\ Requested \notin Range(UNICODE_VERSIONS)
    /\ _wcversion_value(Requested).kind = "return"
    /\ TupleLT(VersionTuple(1), _wcversion_value(Requested).val)

RequestedTuple == _wcversion_value(Requested).val

\* indices of the tabulated versions that are not less than the requested tuple
NotLess == {k \in 1..Len(UNICODE_VERSIONS) : ~TupleLT(VersionTuple(k), RequestedTuple)}
FirstNotLess == CHOOSE k \in NotLess : \A h \in NotLess : k <= h
IsPrefixOf(t, u) == Len(t) <= Len(u) /\ \A k \in 1..Len(t) : t[k] = u[k]

\* C8 as stated: the scan returns the first tabulated version that is not less
\* than the requested tuple, and the latest version when there is none.
C8_FirstNotLess ==
    (pc = "done" /\ ScanCase) =>
        ret = Return(IF NotLess = {} THEN LatestVersion
                     ELSE UNICODE_VERSIONS[FirstNotLess])

\* C8 amended: at the first tabulated version that is not less than the
\* requested tuple the scan returns that version when the requested tuple is a
\* prefix of its tuple, and otherwise the version just before it (the highest
\* tabulated version below the request); with no such version, the latest.
C8_NearestLower ==
    (pc = "done" /\ ScanCase) =>
        ret = Return(IF NotLess = {} THEN LatestVersion
                     ELSE IF IsPrefixOf(RequestedTuple, VersionTuple(FirstNotLess))
                     THEN UNICODE_VERSIONS[FirstNotLess]
                     ELSE UNICODE_VERSIONS[FirstNotLess - 1])

\* "5.0.1" has been resolved to "5.0.0", the version before "5.1.0"
C8_Witness ==
    /\ pc = "done" /\ ScanCase
    /\ given_version = <<53, 46, 48, 46, 49>>
    /\ NotLess # {} /\ ~IsPrefixOf(RequestedTuple, VersionTuple(FirstNotLess))
    /\ ret = Return(UNICODE_VERSIONS[FirstNotLess - 1])

----------------------------------------------------------------------------
(* Range search *)

\* one iteration with the first test made against the start of the range
BisearchStep_start(u, t, lb, ub) ==
    LET mid == (lb + ub) \div 2
    IN  IF u > t[mid + 1][1]
        THEN [lbound |-> mid + 1, ubound |-> ub, found |-> FALSE]
        ELSE IF u < t[mid + 1][1]
        THEN [lbound |-> lb, ubound |-> mid - 1, found |-> FALSE]
        ELSE [lbound |-> lb, ubound |-> ub, found |-> TRUE]

\* one iteration of the while loop of _bisearch
BisearchStep(u, t, lb, ub) ==
    LET mid == (lb + ub) \div 2
    IN  IF u > t[mid + 1][2]
        THEN [lbound |-> mid + 1, ubound |-> ub, found |-> FALSE]
        ELSE IF u < t[mid + 1][1]
        THEN [lbound |-> lb, ubound |-> mid - 1, found |-> FALSE]
        ELSE [lbound |-> lb, ubound |-> ub, found |-> TRUE]

\* the fast rejection before the loop
BisearchOutside(u, t) == u < t[1][1] \/ u > t[Len(t)][2]

RECURSIVE BisearchLoop(_, _, _, _)
BisearchLoop(u, t, lb, ub) ==
    IF ub < lb THEN 0
    ELSE Bind(BisearchStep(u, t, lb, ub),
              LAMBDA s : IF s.found THEN 1 ELSE BisearchLoop(u, t, s.lbound, s.ubound))

_bisearch(u, t) ==
    IF BisearchOutside(u, t) THEN 0 ELSE BisearchLoop(u, t, 0, Len(t) - 1)

\* tables of at most n inclusive ranges within lo..MaxUcs, ascending and
\* mutually non-overlapping
RECURSIVE TablesFrom(_, _)
TablesFrom(lo, n) ==
    IF n = 0 THEN {<<>>}
    ELSE {<<>>} \cup
         UNION {UNION {{<< <<s, e>> >> \o rest : rest \in TablesFrom(e + 1, n - 1)}
                       : e \in s..MaxUcs} : s \in lo..MaxUcs}

InitBisearch ==
    /\ pc = "call" /\ ret = NoRet
    /\ table \in TablesFrom(1, MaxRanges) \ {<<>>}
    /\ ucs \in 0..(MaxUcs + 1)
    /\ lbound = 0 /\ ubound = 0 /\ IdleSteps
    /\ IdleVer /\ IdleEnv /\ IdleTxt /\ IdleCut /\ IdleChar

BisearchEnter ==
    /\ pc = "call"
    /\ lbound' = 0
    /\ ubound' = Len(table) - 1
    /\ IF BisearchOutside(ucs, table)
       THEN pc' = "done" /\ ret' = Return(0)
       ELSE pc' = "while" /\ ret' = ret
    /\ UNCHANGED <<ucs, table, steps, pos, verVars, envVars, txtVars, cutVars, char>>

BisearchIterate ==
    /\ pc = "while" /\ ubound >= lbound
    /\ LET s == BisearchStep(ucs, table, lbound, ubound)
       IN  /\ lbound' = s.lbound
           /\ ubound' = s.ubound
           /\ IF s.found
              THEN pc' = "done" /\ ret' = Return(1)
              ELSE pc' = "while" /\ ret' = ret
    /\ steps' = steps + 1
    /\ UNCHANGED <<ucs, table, pos, verVars, envVars, txtVars, cutVars, char>>

BisearchExit ==
    /\ pc = "while" /\ ubound < lbound
    /\ pc' = "done" /\ ret' = Return(0)
    /\ UNCHANGED <<bisVars, steps, pos, verVars, envVars, txtVars, cutVars, char>>

NextBisearch == BisearchEnter \/ BisearchIterate \/ BisearchExit

SpecBisearch == InitBisearch /\ [][NextBisearch]_vars

InSomeRange(u, t) == \E k \in 1..Len(t) : t[k][1] <= u /\ u <= t[k][2]

\* C10: on a non-empty, ascending, non-overlapping table the search ends (each
\* iteration shrinks the index interval, so there are at most len(table)
\* iterations) and returns 1 exactly when the ordinal lies in some range.
C10_BisearchCorrect ==
    /\ steps <= Len(table)
    /\ pc = "while" => steps + Max(0, ubound - lbound + 1) <= Len(table)
    /\ pc = "done" =>
           ret = Return(IF InSomeRange(ucs, table) THEN 1 ELSE 0)
    /\ _bisearch(ucs, table) = IF InSomeRange(ucs, table) THEN 1 ELSE 0

\* a one-range table has been searched and the ordinal found in it
C10_WitnessOneRange ==
    /\ pc = "done" /\ Len(table) = 1 /\ steps = 1 /\ ret = Return(1)

----------------------------------------------------------------------------
(* Codepoint width *)

\* calculate_string_length_const.ZERO_WIDTH_CF
ZERO_WIDTH_CF ==
    {0, \h034F, \h2028, \h2029} \cup (\h200B..\h200F) \cup (\h202A..\h202E)
        \cup (\h2060..\h2063)

V410 == UNICODE_VERSIONS[1]
V500 == UNICODE_VERSIONS[2]
V510 == UNICODE_VERSIONS[3]
V900 == UNICODE_VERSIONS[4]

\* calculate_string_length_const.ZERO_WIDTH (abridged), one table a version
ZERO_WIDTH(v) ==
    IF v \in {V410, V500}
    THEN << <<\h0300, \h036F>>, <<\h0483, \h0486>>, <<\h0488, \h0489>>,
            <<\h20D0, \h20EB>> >>
    ELSE << <<\h0300, \h036F>>, <<\h0483, \h0489>>, <<\h20D0, \h20F0>> >>

\* calculate_string_length_const.WIDE_EASTASIAN (abridged), one table a version
WIDE_EASTASIAN(v) ==
    LET common == << <<\h1100, \h115F>>, <<\h2E80, \h303E>>, <<\h3041, \h33FF>>,
                     <<\h3400, \h4DBF>>, <<\h4E00, \hA4CF>>, <<\hAC00, \hD7A3>>,
                     <<\hF900, \hFAFF>>, <<\hFE30, \hFE6F>>, <<\hFF00, \hFF60>>,
                     <<\hFFE0, \hFFE6>> >>
    IN  IF v = V900
        THEN common \o << <<\h1F300, \h1F64F>>, <<\h20000, \h3FFFD>> >>
        ELSE common \o << <<\h20000, \h3FFFD>> >>

\* the characters Calc_Char_Width forces to two columns
OverrideChars ==
    {\h2018, \h2019, \h201C, \h201D, \h2026, \h00B7, \h2014,
     \h300A, \h300B, \h2191, \h2193, \h2190, \h2192}

\* the two table searches of _wcwidth, when the version has been resolved
TableWidth(ucs_, _unicode_version) ==
    IF _unicode_version.kind = "raise" THEN _unicode_version
    ELSE IF _bisearch(ucs_, ZERO_WIDTH(_unicode_version.val)) = 1 THEN Return(0)
    ELSE Return(1 + _bisearch(ucs_, WIDE_EASTASIAN(_unicode_version.val)))

_wcwidth(wc, unicode_version, env, action) ==
    IF wc \in ZERO_WIDTH_CF THEN Return(0)
    ELSE IF wc < 32 \/ (\h07F <= wc /\ wc < \h0A0) THEN Return(-1)
    ELSE Bind(_wcmatch_version(unicode_version, env, action),
              LAMBDA _unicode_version : TableWidth(wc, _unicode_version))

\* the classifier handing on what _wcwidth returns, unclamped
Calc_Char_Width_unclamped(c, env, action) ==
    IF c \in OverrideChars THEN Return(2) ELSE _wcwidth(c, AUTO, env, action)

\* a negative width becomes 0
ClampWidth(width) ==
    IF width.kind = "raise" THEN width
    ELSE Return(IF width.val < 0 THEN 0 ELSE width.val)

Calc_Char_Width(c, env, action) ==
    IF c \in OverrideChars THEN Return(2)
    ELSE Bind(_wcwidth(c, AUTO, env, action), ClampWidth)

\* the ordinals the classifier runs are drawn from: controls, plain characters,
\* the overrides, zero-width and wide characters, and the ends of the ranges
CharSample ==
    {0, 1, 9, 10, 31, 32, 65, 126, 127, 128, 159, 160, \h00B6, \h00B8}
        \cup OverrideChars
        \cup {\h02FF, \h0300, \h0301, \h036F, \h0370, \h034F, \h0487, \h20EC}
        \cup {\h200A, \h200B, \h2010, \h2028, \h2060, \h2064}
        \cup {\h10FF, \h1100, \h115F, \h1160, \h3000, \h303F, \h4E00, \h6C38,
              \hA4CF, \hA4D0, \hD800, \hFF01, \hFF61}
        \cup {\h1F2FF, \h1F300, \h1F64F, \h1F650, \h20000, \h10FFFF}

\* the values of UNICODE_VERSION the classifier runs are made under
EnvSample ==
    {{}} \cup {{v} : v \in {V410, V510, V900, <<53>>, <<57, 46, 49>>, <<120>>,
                            <<11, \h665>>, <<>>, AUTO, LATEST}}

InitCharWidth ==
    /\ pc = "call" /\ ret = NoRet
    /\ char \in CharSample
    /\ environ \in EnvSample
    /\ warn_action \in WarnActions
    /\ IdleVer /\ IdleBis /\ IdleTxt /\ IdleCut /\ IdleSteps

CalcCharWidth ==
    /\ pc = "call"
    /\ ret' = Calc_Char_Width(char, environ, warn_action)
    /\ pc' = "done"
    /\ UNCHANGED <<char, envVars, verVars, bisVars, txtVars, cutVars, steps, pos>>

SpecCharWidth == InitCharWidth /\ [][CalcCharWidth]_vars

IsControl(c) == (0 <= c /\ c < 32) \/ (127 <= c /\ c < 160)

\* the version the classifier works under, or the warning raised for it
Resolved == _wcmatch_version(AUTO, environ, warn_action)

\* C5: the classifier returns 0, 1 or 2 for every codepoint under every
\* resolved version; the -1 of _wcwidth never comes out, so a control
\* codepoint outside the override set has width exactly 0.
C5_WidthClamped ==
    pc = "done" =>
        /\ Resolved.kind = "return" => (ret.kind = "return" /\ ret.val \in {0, 1, 2})
        /\ ret.kind = "return" => ret.val \in {0, 1, 2}
        /\ (IsControl(char) /\ char \notin OverrideChars) => ret = Return(0)

\* a control character that _wcwidth reports as -1 has been classified as 0
C5_Witness ==
    /\ pc = "done" /\ char = 127
    /\ _wcwidth(char, AUTO, environ, warn_action) = Return(-1)
    /\ ret = Return(0)

----------------------------------------------------------------------------
(* UTF-8 decoder *)

\* the error result advancing past two bytes
DecodeError_skip2(p) == <<63, p + 2>>

\* error = ord("?"), pos + 1
DecodeError(p) == <<63, p + 1>>

\* the two-byte branch without the test for an overlong encoding
Decode2_overlong(b1, b2, p) ==
    IF BitAnd(b2, \hC0) # \h80 THEN DecodeError(p)
    ELSE <<BitOr(Shl(BitAnd(b1, \h1F), 6), BitAnd(b2, \h3F)), p + 2>>

\* the branch of a lead byte 110xxxxx
Decode2(b1, b2, p) ==
    IF BitAnd(b2, \hC0) # \h80 THEN DecodeError(p)
    ELSE LET o == BitOr(Shl(BitAnd(b1, \h1F), 6), BitAnd(b2, \h3F))
         IN  IF o < \h80 THEN DecodeError(p) ELSE <<o, p + 2>>

\* the branch of a lead byte 1110xxxx
Decode3(b1, b2, b3, p) ==
    IF BitAnd(b2, \hC0) # \h80 THEN DecodeError(p)
    ELSE IF BitAnd(b3, \hC0) # \h80 THEN DecodeError(p)
    ELSE LET o == BitOr(BitOr(Shl(BitAnd(b1, \h0F), 12), Shl(BitAnd(b2, \h3F), 6)),
                        BitAnd(b3, \h3F))
         IN  IF o < \h800 THEN DecodeError(p) ELSE <<o, p + 3>>

\* the branch of a lead byte 11110xxx
Decode4(b1, b2, b3, b4, p) ==
    IF BitAnd(b2, \hC0) # \h80 THEN DecodeError(p)
    ELSE IF BitAnd(b3, \hC0) # \h80 THEN DecodeError(p)
    ELSE IF BitAnd(b4, \hC0) # \h80 THEN DecodeError(p)
    ELSE LET o == BitOr(BitOr(BitOr(Shl(BitAnd(b1, \h07), 18),
                                    Shl(BitAnd(b2, \h3F), 12)),
                              Shl(BitAnd(b3, \h3F), 6)),
                        BitAnd(b4, \h3F))
         IN  IF o < \h10000 THEN DecodeError(p) ELSE <<o, p + 4>>

\* text[k] for -len(t) <= k < len(t): a negative index counts from the end
ByteAt(t, k) == IF k < 0 THEN t[Len(t) + k + 1] ELSE t[k + 1]

\* text[pos] raises IndexError, which line 104 turns into ValueError
OutOfRange(t, p) == p >= Len(t) \/ p < 0 - Len(t)

\* (ordinal at p, next position), for -len(t) <= p < len(t)
_decode_one(t, p) ==
    LET lt == Len(t) - p
        b1 == ByteAt(t, p)
        b2 == IF lt > 1 THEN ByteAt(t, p + 1) ELSE 0
        b3 == IF lt > 2 THEN ByteAt(t, p + 2) ELSE 0
        b4 == IF lt > 3 THEN ByteAt(t, p + 3) ELSE 0
    IN  IF BitAnd(b1, \h80) = 0 THEN <<b1, p + 1>>
        ELSE IF lt < 2 THEN DecodeError(p)
        ELSE IF BitAnd(b1, \hE0) = \hC0 THEN Decode2(b1, b2, p)
        ELSE IF lt < 3 THEN DecodeError(p)
        ELSE IF BitAnd(b1, \hF0) = \hE0 THEN Decode3(b1, b2, b3, p)
        ELSE IF lt < 4 THEN DecodeError(p)
        ELSE IF BitAnd(b1, \hF8) = \hF0 THEN Decode4(b1, b2, b3, b4, p)
        ELSE DecodeError(p)

\* the bytes the buffers are made of: ASCII, continuation bytes, the lead bytes
\* of two, three and four byte sequences, and a byte of no pattern
ByteSample ==
    {\h41, \h80, \h90, \hA0, \hC0, \hC2, \hE0, \hE3, \hED, \hF0, \hF4, \hF8}

InitDecode ==
    /\ pc = "decode" /\ ret = NoRet
    /\ text \in SeqsUpTo(ByteSample, MaxTextLen)
    /\ is_str = FALSE /\ start_offs = 0 /\ end_offs = None
    /\ i = 0 /\ steps = 0 /\ pos = 0
    /\ IdleVer /\ IdleEnv /\ IdleBis /\ IdleCut /\ IdleChar

\* one call of _decode_one(text, i): the first call is made at position 0, each
\* later one at the next position the call before it returned
DecodeOne ==
    /\ pc = "decode" /\ i < Len(text)
    /\ pos' = i
    /\ ret' = Return(_decode_one(text, i))
    /\ i' = ret'.val[2]
    /\ steps' = steps + 1
    /\ UNCHANGED <<pc, text, is_str, start_offs, end_offs, verVars, envVars,
                   bisVars, cutVars, char>>

SpecDecode == InitDecode /\ [][DecodeOne]_vars

\* C4: every call made at a position inside the buffer returns a next position
\* 1 to 4 bytes further and not beyond the end of the buffer, so the calls
\* repeated from position 0 number at most len(buffer) and never pass the end
\* of the buffer (a call is possible until the position is len(buffer)).
C4_DecodeProgress ==
    /\ steps = 0 =>
           \A p \in 0..(Len(text) - 1) :
               LET next == _decode_one(text, p)[2]
               IN  next - p \in 1..4 /\ next <= Len(text)
    /\ ret.kind = "return" =>
           /\ ret.val[2] - pos \in 1..4
           /\ ret.val[2] <= Len(text)
    /\ steps <= i
    /\ i <= Len(text)

\* a lead byte of a two-byte sequence that is the last byte of the buffer has
\* been decoded, and the calls have arrived at the end of the buffer
C4_Witness ==
    /\ ret = Return(<<63, 2>>) /\ text = <<\h41, \hC2>> /\ pos = 1 /\ steps = 2
    /\ i = Len(text)

IsCont(b) == 128 <= b /\ b <= 191

\* bytes the pattern of lead byte b asks for; 0 when b matches no pattern
SeqLen(b) ==
    IF b < 128 THEN 1
    ELSE IF 192 <= b /\ b <= 223 THEN 2
    ELSE IF 224 <= b /\ b <= 239 THEN 3
    ELSE IF 240 <= b /\ b <= 247 THEN 4
    ELSE 0

\* the ordinal the n bytes at p assemble to
Assembled(t, p, n) ==
    CASE n = 2 -> (t[p + 1] - 192) * 64 + (t[p + 2] - 128)
      [] n = 3 -> (t[p + 1] - 224) * 4096 + (t[p + 2] - 128) * 64 + (t[p + 3] - 128)
      [] n = 4 -> (t[p + 1] - 240) * 262144 + (t[p + 2] - 128) * 4096
                      + (t[p + 3] - 128) * 64 + (t[p + 4] - 128)

MinOrdinal(n) == CASE n = 2 -> 128 [] n = 3 -> 2048 [] n = 4 -> 65536

Truncated(t, p) == SeqLen(t[p + 1]) > Len(t) - p
BadContinuation(t, p) ==
    ~Truncated(t, p) /\ \E k \in 2..SeqLen(t[p + 1]) : ~IsCont(t[p + k])
Overlong(t, p) ==
    /\ SeqLen(t[p + 1]) >= 2 /\ ~Truncated(t, p) /\ ~BadContinuation(t, p)
    /\ Assembled(t, p, SeqLen(t[p + 1])) < MinOrdinal(SeqLen(t[p + 1]))
NoPattern(t, p) == SeqLen(t[p + 1]) = 0

DecodeFailure(t, p) ==
    /\ t[p + 1] >= 128
    /\ Truncated(t, p) \/ BadContinuation(t, p) \/ Overlong(t, p) \/ NoPattern(t, p)

\* C9: a call that fails (too few bytes left for the lead byte's pattern, a
\* continuation byte not of the form 10xxxxxx, an ordinal below the minimum of
\* its length, or a lead byte of no pattern) returns (ord('?'), pos + 1); a
\* lead byte below 0x80 returns (that byte, pos + 1).
C9_PlaceholderOnFailure ==
    ret.kind = "return" =>
        /\ DecodeFailure(text, pos) => ret.val = <<63, pos + 1>>
        /\ text[pos + 1] < 128 => ret.val = <<text[pos + 1], pos + 1>>

\* the overlong encoding 0xC0 0x80 has been answered with the placeholder and
\* an advance of one byte
C9_Witness ==
    /\ text = <<\hC0, \h80>> /\ pos = 0 /\ Overlong(text, pos)
    /\ ret = Return(<<63, 1>>) /\ i = 1

----------------------------------------------------------------------------
(* String width *)

\* the encoding Calc_String_Width assumes of a byte string
\* the encoding that sends a byte string through the branch of lines 47-63
_byte_encoding_utf8 == "utf8"

_byte_encoding == "narrow"

IsContByte(b) == \h80 <= b /\ b <= \hBF

\* bytes.decode("utf-8") from byte index p on: the codepoints, or the
\* UnicodeDecodeError of the first ill-formed sequence
RECURSIVE PyUtf8Decode(_, _)
PyUtf8Decode(b, p) ==
    IF p >= Len(b) THEN Return(<<>>)
    ELSE
    LET left == Len(b) - p
        b1 == b[p + 1]
        b2 == IF left > 1 THEN b[p + 2] ELSE 0
        b3 == IF left > 2 THEN b[p + 3] ELSE 0
        b4 == IF left > 3 THEN b[p + 4] ELSE 0
        lo2 == IF b1 = \hE0 THEN \hA0 ELSE IF b1 = \hF0 THEN \h90 ELSE \h80
        hi2 == IF b1 = \hED THEN \h9F ELSE IF b1 = \hF4 THEN \h8F ELSE \hBF
        n == IF b1 < \h80 THEN 1
             ELSE IF \hC2 <= b1 /\ b1 <= \hDF THEN 2
             ELSE IF \hE0 <= b1 /\ b1 <= \hEF THEN 3
             ELSE IF \hF0 <= b1 /\ b1 <= \hF4 THEN 4
             ELSE 0
        ok == /\ n >= 1 /\ n <= left
              /\ n >= 2 => (lo2 <= b2 /\ b2 <= hi2)
              /\ n >= 3 => IsContByte(b3)
              /\ n >= 4 => IsContByte(b4)
        cp == CASE n = 1 -> b1
                [] n = 2 -> (b1 - \hC0) * 64 + (b2 - \h80)
                [] n = 3 -> (b1 - \hE0) * 4096 + (b2 - \h80) * 64 + (b3 - \h80)
                [] n = 4 -> (b1 - \hF0) * 262144 + (b2 - \h80) * 4096
                                + (b3 - \h80) * 64 + (b4 - \h80)
        rest == PyUtf8Decode(b, p + n)
    IN  IF ~ok THEN Raise("UnicodeDecodeError")
        ELSE IF rest.kind = "raise" THEN rest
        ELSE Return(<<cp>> \o rest.val)

\* sum(Calc_Char_Width(char) for char in chars): the widths are computed and
\* added from the first character on, and the first exception ends the sum
RECURSIVE WidthSum(_, _, _, _)

\* the sum so far and the width w of the next character
WidthAdd(sum, w, chars, env, action) ==
    IF w.kind = "raise" THEN w ELSE WidthSum(sum + w.val, chars, env, action)

WidthSum(sum, chars, env, action) ==
    IF chars = <<>> THEN Return(sum)
    ELSE Bind(Calc_Char_Width(Head(chars), env, action),
              LAMBDA w : WidthAdd(sum, w, Tail(chars), env, action))

\* sc += w, and the next position
FallbackAdd(next, cols, w) ==
    IF w.kind = "raise" THEN w ELSE Return([i |-> next, sc |-> cols + w.val])

\* o, i = _decode_one(text, i); w = Calc_Char_Width(chr(o))
FallbackDecoded(d, cols, env, action) ==
    IF d[1] >= \h110000 THEN Raise("ValueError")
    ELSE FallbackAdd(d[2], cols, Calc_Char_Width(d[1], env, action))

\* one iteration of the byte-wise loop: decode at position p, chr(), classify, add
FallbackStep(t, p, cols, env, action) ==
    IF OutOfRange(t, p) THEN Raise("ValueError")
    ELSE FallbackDecoded(_decode_one(t, p), cols, env, action)

\* the byte-wise loop from position p on
RECURSIVE FallbackLoop(_, _, _, _, _, _)
RECURSIVE FallbackNext(_, _, _, _, _)

\* the loop after an iteration has given r
FallbackNext(t, e, r, env, action) ==
    IF r.kind = "raise" THEN r ELSE FallbackLoop(t, r.val.i, e, r.val.sc, env, action)

FallbackLoop(t, p, e, cols, env, action) ==
    IF p >= e THEN Return(cols)
    ELSE FallbackNext(t, e, FallbackStep(t, p, cols, env, action), env, action)

\* the branch of the encoding "utf8" once the bulk decode has given d
Utf8Decoded(d, t, so, e, env, action) ==
    IF d.kind = "return" THEN WidthSum(0, d.val, env, action)
    ELSE Warn(action, "UnicodeWarning", FallbackLoop(t, so, e, 0, env, action))

\* the branch of the encoding "utf8"
Utf8Width(t, so, e, env, action) ==
    Utf8Decoded(PyUtf8Decode(PySlice(t, so, e), 0), t, so, e, env, action)

\* the call with the range tested after the branch of native text
Calc_String_Width_late(t, isstr, so, eo, env, action) ==
    IF t = <<>> THEN Return(0)
    ELSE LET e == IF eo = None THEN Len(t) ELSE eo[1]
         IN  IF isstr THEN WidthSum(0, PySlice(t, so, e), env, action)
             ELSE IF so > e THEN Raise("ValueError")
             ELSE Return(e - so)

Calc_String_Width(t, isstr, so, eo, env, action) ==
    IF t = <<>> THEN Return(0)
    ELSE LET e == IF eo = None THEN Len(t) ELSE eo[1]
         IN  IF so > e THEN Raise("ValueError")
             ELSE IF isstr THEN WidthSum(0, PySlice(t, so, e), env, action)
             ELSE IF _byte_encoding = "utf8" THEN Utf8Width(t, so, e, env, action)
             ELSE Return(e - so)

\* the characters of native texts: narrow, wide, zero-width
StrChars == {\h41, \h6C38, \h0301}
\* the bytes of the byte strings handed to Calc_String_Width: ASCII, a
\* continuation byte, the lead bytes of two, three and four byte sequences
WidthBytes == {\h41, \h90, \hC2, \hE3, \hF4}

InitStringWidth ==
    /\ pc = "call" /\ ret = NoRet
    /\ is_str \in BOOLEAN
    /\ text \in IF is_str THEN SeqsUpTo(StrChars, MaxStrLen)
                ELSE SeqsUpTo(WidthBytes, MaxTextLen)
    /\ start_offs \in -1..(MaxTextLen + 1)
    /\ end_offs \in {None} \cup {Some(n) : n \in -1..(MaxTextLen + 1)}
    /\ i = 0
    /\ environ \in {{}, {<<120>>}}
    /\ warn_action \in WarnActions
    /\ IdleVer /\ IdleBis /\ IdleCut /\ IdleChar /\ IdleSteps

CalcStringWidth ==
    /\ pc = "call"
    /\ ret' = Calc_String_Width(text, is_str, start_offs, end_offs, environ, warn_action)
    /\ pc' = "done"
    /\ UNCHANGED <<txtVars, envVars, verVars, bisVars, cutVars, char, steps, pos>>

SpecStringWidth == InitStringWidth /\ [][CalcStringWidth]_vars

\* end_offs after its default has been filled in
EndOffs == IF end_offs = None THEN Len(text) ELSE end_offs[1]

\* C2 as stated: whatever the text, the empty text included, a call with
\* start_offs > end_offs fails with ValueError and returns no width.
C2_InvalidRangeAlways ==
    (pc = "done" /\ start_offs > EndOffs) => ret = Raise("ValueError")

\* C2 amended: for every non-empty text, native or bytes, a call with
\* start_offs > end_offs fails with ValueError and returns no width (an empty
\* text returns 0 before the range is looked at).
C2_InvalidRangeNonEmpty ==
    (pc = "done" /\ text # <<>> /\ start_offs > EndOffs) => ret = Raise("ValueError")

\* a native text has been called with start_offs beyond its length and the
\* default end_offs, and the call has raised
C2_Witness ==
    /\ pc = "done" /\ is_str /\ text = <<\h41>> /\ start_offs = 2 /\ end_offs = None
    /\ ret = Raise("ValueError")

\* the range is valid, and the byte string text[start_offs:end_offs] is not
\* well-formed UTF-8: its bulk decode fails
Malformed ==
    /\ ~is_str
    /\ start_offs <= EndOffs /\ EndOffs <= Len(text)
    /\ PyUtf8Decode(PySlice(text, start_offs, EndOffs), 0).kind = "raise"

----------------------------------------------------------------------------
(* Cut and pad *)

\* Calc_String_Width(string): the width of a native text, defaults for the
\* range, or the exception the call raises
StrWidth(str, env, action) == Calc_String_Width(str, TRUE, 0, None, env, action)

\* one pass of the body of the cut loop
CutOnce(str, align) ==
    IF align = "left" THEN PySlice(str, 1, Len(str))
    ELSE IF align = "right" THEN PySlice(str, 0, -1)
    ELSE str

\* one pass of the body of the pad loop
PadOnce(str, align, pad) ==
    IF align = "left" THEN pad \o str
    ELSE IF align = "right" THEN str \o pad
    ELSE str

Aligns == {"left", "right", "center"}
\* pad_char: a space, a wide character, a letter with a combining mark, the
\* empty string
PadChars == {<<32>>, <<\h6C38>>, <<\h41, \h0301>>, <<>>}

\* before the call: no argument is bound yet
InitCutPad ==
    /\ pc = "start" /\ ret = NoRet
    /\ IdleCut
    /\ environ \in {{}, {<<120>>}}
    /\ warn_action \in WarnActions
    /\ IdleVer /\ IdleBis /\ IdleTxt /\ IdleChar /\ IdleSteps

\* the call binds its arguments
CutPadCall ==
    /\ pc = "start" /\ pc' = "call"
    /\ string' \in SeqsUpTo(StrChars, MaxStrLen)
    /\ length' \in -1..MaxLength
    /\ cut_align' \in Aligns
    /\ pad_align' \in Aligns
    /\ pad_char' \in PadChars
    /\ UNCHANGED <<ret, envVars, verVars, bisVars, txtVars, char, steps, pos>>

\* the width of the string as it is now
Width == StrWidth(string, environ, warn_action)

\* the tests that choose between cutting, padding and returning the string;
\* an exception of Calc_String_Width ends the call
CutPadEnter ==
    /\ pc = "call"
    /\ \E w \in {Width} :
           IF w.kind = "raise"
           THEN pc' = "done" /\ ret' = w
           ELSE IF w.val > length
           THEN pc' = "cut" /\ ret' = ret
           ELSE IF w.val < length
           THEN pc' = "pad" /\ ret' = ret
           ELSE pc' = "done" /\ ret' = Return(string)
    /\ UNCHANGED <<cutVars, envVars, verVars, bisVars, txtVars, char, steps, pos>>

\* the test of the cut loop holds
Cutting(w) == w.kind = "return" /\ w.val > length

\* the test of the pad loop holds
Padding(w) == w.kind = "return" /\ w.val < length

\* the loop is left: by the return after it, or by the exception of its test
LoopExit(w) == IF w.kind = "raise" THEN w ELSE Return(string)

CutIterate ==
    /\ pc = "cut" /\ Bind(Width, Cutting)
    /\ string' = CutOnce(string, cut_align)
    /\ UNCHANGED <<pc, ret, length, cut_align, pad_align, pad_char, envVars,
                   verVars, bisVars, txtVars, char, steps, pos>>

CutReturn ==
    /\ pc = "cut" /\ ~Bind(Width, Cutting)
    /\ pc' = "done" /\ ret' = Bind(Width, LoopExit)
    /\ UNCHANGED <<cutVars, envVars, verVars, bisVars, txtVars, char, steps, pos>>

PadIterate ==
    /\ pc = "pad" /\ Bind(Width, Padding)
    /\ string' = PadOnce(string, pad_align, pad_char)
    /\ UNCHANGED <<pc, ret, length, cut_align, pad_align, pad_char, envVars,
                   verVars, bisVars, txtVars, char, steps, pos>>

PadReturn ==
    /\ pc = "pad" /\ ~Bind(Width, Padding)
    /\ pc' = "done" /\ ret' = Bind(Width, LoopExit)
    /\ UNCHANGED <<cutVars, envVars, verVars, bisVars, txtVars, char, steps, pos>>

NextCutPad == CutPadCall \/ CutPadEnter \/ CutIterate \/ CutReturn \/ PadIterate \/ PadReturn

SpecCutPad == InitCutPad /\ [][NextCutPad]_vars

\* the interpreter keeps running the call: a step that can be taken is taken
FairSpecCutPad == SpecCutPad /\ WF_vars(NextCutPad)

\* C1: with length >= 0, cut_align and pad_align in {'left', 'right'} and a
\* pad_char of width 1, the string returned has display width exactly length.
C1_ExactWidth ==
    (/\ pc = "done" /\ length >= 0
     /\ cut_align \in {"left", "right"} /\ pad_align \in {"left", "right"}
     /\ StrWidth(pad_char, environ, warn_action) = Return(1))
        => (/\ ret.kind = "return"
            /\ StrWidth(ret.val, environ, warn_action) = Return(length))

\* C7: for every string, length, cut_align, pad_align and pad_char the cut
\* loop and the pad loop exit and the call returns.
C7_CutPadReturns == <>(pc = "done")

====
